---------------------------- MODULE Spec2Model ----------------------------
(***************************************************************************)
(* PageRank (src/pagerank.py): the corpus loader `crawl`, the random-      *)
(* surfer `transition_model`, the sampling estimator `sample_pagerank`     *)
(* and the fixed-point estimator `iterate_pagerank`.                       *)
(*                                                                         *)
(* Numbers.  transition_model is computed in exact rational arithmetic (a  *)
(* rational is a reduced pair <<num, den>>, den > 0); its values are the   *)
(* weights of the draw.  The accumulators of sample_pagerank are IEEE      *)
(* doubles: a double v in [1/16, 2) or 0.0 is the natural number v * 2^56, *)
(* kept in three limbs, and 1.0 / n and += round to 53 significant bits,   *)
(* ties to even.  iterate_pagerank runs tens of passes, so its floats are  *)
(* modelled as fixed-point numbers: an integer x stands for x / SCALE and  *)
(* every division or product is rounded to the nearest unit.               *)
(*                                                                         *)
(* Names.  A file name / page identifier is a sequence of characters, so   *)
(* that `filename.endswith(".html")` is computed and not assumed.          *)
(***************************************************************************)
EXTENDS Integers, Sequences, FiniteSets, TLC

\* ranks is the local of iterate_pagerank, sample_ranks the local `ranks` of
\* sample_pagerank
VARIABLES directory, corpus, pc, damping_factor, n, ranks, sample_ranks,
          sample, i, model, k

vars == <<directory, corpus, pc, damping_factor, n, ranks, sample_ranks,
          sample, i, model, k>>

-----------------------------------------------------------------------------
(* Bounds of the model *)

\* largest sample count n handed to sample_pagerank
MaxN == 6

\* cap on the number of passes of the `while True` loop of iterate_pagerank
MaxIter == 45

-----------------------------------------------------------------------------
(* Rational arithmetic *)

Abs(x) == IF x < 0 THEN -x ELSE x

RECURSIVE GCD(_, _)
GCD(a, b) == IF b = 0 THEN a ELSE GCD(b, a % b)

Rat(a, b) == LET g == GCD(Abs(a), Abs(b))
                 s == IF b < 0 THEN -1 ELSE 1
             IN  <<(s * a) \div g, (s * b) \div g>>

Zero == <<0, 1>>
One == <<1, 1>>

RAdd(x, y) == Rat(x[1] * y[2] + y[1] * x[2], x[2] * y[2])
RSub(x, y) == Rat(x[1] * y[2] - y[1] * x[2], x[2] * y[2])
RDivInt(x, m) == Rat(x[1], x[2] * m)
RInv(m) == Rat(1, m)

RECURSIVE RSum(_, _)
RSum(f, S) == IF S = {} THEN Zero
              ELSE LET p == CHOOSE q \in S : TRUE
                   IN  RAdd(f[p], RSum(f, S \ {p}))

-----------------------------------------------------------------------------
(* IEEE double arithmetic of sample_pagerank *)

\* a natural number below 2^71 is <<h, m, l>> = h * Limb^2 + m * Limb + l
Limb == 2 ^ 20

BNorm(h, m, l) ==
    LET m1 == m + (l \div Limb)
    IN  <<h + (m1 \div Limb), m1 % Limb, l % Limb>>

BAdd(x, y) == BNorm(x[1] + y[1], x[2] + y[2], x[3] + y[3])
BSub(x, y) == BNorm(x[1] - y[1], x[2] - y[2], x[3] - y[3])
BMulSmall(x, c) == BNorm(x[1] * c, x[2] * c, x[3] * c)

BLeq(x, y) ==
    \/ x[1] < y[1]
    \/ x[1] = y[1] /\ x[2] < y[2]
    \/ x[1] = y[1] /\ x[2] = y[2] /\ x[3] <= y[3]

BAbsDiff(x, y) == IF BLeq(y, x) THEN BSub(x, y) ELSE BSub(y, x)

\* quotient and remainder of x by a small c, by long division
BDivSmall(x, c) ==
    LET r1 == x[1] % c
        r2 == (r1 * Limb + x[2]) % c
    IN  <<x[1] \div c, (r1 * Limb + x[2]) \div c, (r2 * Limb + x[3]) \div c>>

BModSmall(x, c) ==
    LET r1 == x[1] % c
        r2 == (r1 * Limb + x[2]) % c
    IN  (r2 * Limb + x[3]) % c

RECURSIVE Len2(_)
Len2(v) == IF v = 0 THEN 0 ELSE 1 + Len2(v \div 2)

BitLen(x) ==
    IF x[1] > 0 THEN 40 + Len2(x[1])
    ELSE IF x[2] > 0 THEN 20 + Len2(x[2])
    ELSE Len2(x[3])

\* x + (a fraction in (0,1) when sticky) rounded to 53 significant bits,
\* ties to even (fewer than 20 bits are dropped)
RoundTo53(x, sticky) ==
    LET s == BitLen(x) - 53
    IN  IF s <= 0 THEN x
        ELSE LET unit == 2 ^ s
                 low  == x[3] % unit
                 half == unit \div 2
                 odd  == IF s < 20 THEN (x[3] \div unit) % 2 = 1
                                   ELSE x[2] % 2 = 1
                 up   == low > half \/ (low = half /\ (sticky \/ odd))
             IN  BNorm(x[1], x[2], x[3] - low + (IF up THEN unit ELSE 0))

\* the doubles 0.0 and 1.0
FZero == <<0, 0, 0>>
FOne == <<2 ^ 16, 0, 0>>

\* the double a / m, for integers 1 <= a <= m <= 16: the quotient with one
\* more bit, rounded, and that bit taken off again
FDiv(a, m) ==
    LET num == BMulSmall(FOne, 2 * a)
        q   == BDivSmall(num, m)
    IN  BDivSmall(RoundTo53(q, BModSmall(num, m) # 0), 2)

\* the double x + y
FAdd(x, y) == RoundTo53(BAdd(x, y), FALSE)

\* the exact sum of the doubles f[p], p in S
RECURSIVE BSum(_, _)
BSum(f, S) == IF S = {} THEN FZero
              ELSE LET p == CHOOSE q \in S : TRUE
                   IN  BAdd(f[p], BSum(f, S \ {p}))

-----------------------------------------------------------------------------
(* Fixed-point arithmetic of iterate_pagerank *)

SCALE == 10 ^ 6

\* a / b rounded to the nearest integer (b > 0)
RoundDiv(a, b) == (2 * a + b) \div (2 * b)

\* the float r, for a rational r
FxOfRat(r) == RoundDiv(r[1] * SCALE, r[2])

\* x / m for a float x and an integer m (a len(...))
FxDivInt(x, m) == RoundDiv(x, m)

\* d * x for the damping factor d (a rational) and a float x
FxMul(d, x) == RoundDiv(d[1] * x, d[2])

RECURSIVE FxSum(_, _)
FxSum(f, S) == IF S = {} THEN 0
               ELSE LET p == CHOOSE q \in S : TRUE
                    IN  f[p] + FxSum(f, S \ {p})

\* the literal 0.001 of the convergence test
Threshold == SCALE \div 1000

-----------------------------------------------------------------------------
(* Program constants and the input universe *)

DAMPING == <<17, 20>>

Dampings == {DAMPING, <<1, 2>>}

Html(c) == <<c, ".", "h", "t", "m", "l">>

PageA == Html("a")
PageB == Html("b")
PageC == Html("c")
NotesTxt == <<"n", ".", "t", "x", "t">>
External == <<"h", "t", "t", "p", ":", "x">>

\* page identifiers of the corpora handed directly to the estimators
Pages == {PageA, PageB, PageC}

\* names of the files a directory may hold, and the href targets in them
FileNames == {PageA, PageB, NotesTxt}
Hrefs == {PageA, PageB, NotesTxt, External}

endswith(s, suffix) ==
    /\ Len(s) >= Len(suffix)
    /\ SubSeq(s, Len(s) - Len(suffix) + 1, Len(s)) = suffix

DotHtml == <<".", "h", "t", "m", "l">>

\* a directory: file name |-> set of href targets the regex finds in it
\* (the content of a file that is not .html is never read)
Directories ==
    UNION { { f \in [S -> SUBSET Hrefs] :
                \A x \in S : ~endswith(x, DotHtml) => f[x] = {} }
            : S \in SUBSET FileNames }

\* corpora whose link sets contain only corpus keys (self-links allowed:
\* a corpus built naively, without the loader's filtering)
Corpora == UNION { [S -> SUBSET S] : S \in SUBSET Pages }

\* no directory: the corpus was handed over directly (no file has the empty name)
NoDirectory == [x \in {<<>>} |-> {}]
NoPage == <<>>
NoModel == <<>>
NoRanks == <<>>

-----------------------------------------------------------------------------
(* crawl *)

\* crawl_extract without `- {filename}`
crawl_extract_KeepSelf(dir) ==
    [filename \in {x \in DOMAIN dir : endswith(x, DotHtml)} |-> dir[filename]]

\* first loop: links of every .html file, minus the file itself
crawl_extract(dir) ==
    [filename \in {x \in DOMAIN dir : endswith(x, DotHtml)} |->
        dir[filename] \ {filename}]

\* crawl_filter without the `if link in pages`
crawl_filter_KeepAll(pages) ==
    [filename \in DOMAIN pages |-> pages[filename]]

\* second loop: only links to other pages in the corpus
crawl_filter(pages) ==
    [filename \in DOMAIN pages |->
        {link \in pages[filename] : link \in DOMAIN pages}]

crawl(dir) == crawl_filter(crawl_extract(dir))

-----------------------------------------------------------------------------
(* transition_model *)

\* transition_model with `model[link] = ...` for `model[link] += ...`
transition_model_Assign(c, page, d) ==
    LET N == Cardinality(DOMAIN c)
        L == Cardinality(c[page])
    IN  IF L # 0
        THEN [link \in DOMAIN c |->
                IF link \in c[page]
                THEN RDivInt(d, L)
                ELSE RDivInt(RSub(One, d), N)]
        ELSE [link \in DOMAIN c |-> RInv(N)]

\* transition_model with len(corpus) for len(corpus[page])
transition_model_OverN(c, page, d) ==
    LET N == Cardinality(DOMAIN c)
        L == Cardinality(c[page])
    IN  IF L # 0
        THEN [link \in DOMAIN c |->
                IF link \in c[page]
                THEN RAdd(RDivInt(RSub(One, d), N), RDivInt(d, N))
                ELSE RDivInt(RSub(One, d), N)]
        ELSE [link \in DOMAIN c |-> RInv(N)]

transition_model(c, page, d) ==
    LET N == Cardinality(DOMAIN c)
        L == Cardinality(c[page])
    IN  IF L # 0
        THEN [link \in DOMAIN c |->
                IF link \in c[page]
                THEN RAdd(RDivInt(RSub(One, d), N), RDivInt(d, L))
                ELSE RDivInt(RSub(One, d), N)]
        ELSE [link \in DOMAIN c |-> RInv(N)]

-----------------------------------------------------------------------------
(* iterate_pagerank *)

initial_ranks(c) ==
    [page \in DOMAIN c |-> FxDivInt(SCALE, Cardinality(DOMAIN c))]

\* contribution without the elif branch of the dangling pages
contribution_NoDangling(c, rk, d, current_page, page) ==
    IF current_page \in c[page]
    THEN FxMul(d, FxDivInt(rk[page], Cardinality(c[page])))
    ELSE 0

\* contribution with len(corpus) for len(corpus[page])
contribution_LinkOverN(c, rk, d, current_page, page) ==
    IF current_page \in c[page]
    THEN FxMul(d, FxDivInt(rk[page], Cardinality(DOMAIN c)))
    ELSE IF c[page] = {}
         THEN FxMul(d, FxDivInt(rk[page], Cardinality(DOMAIN c)))
         ELSE 0

\* contribution in which a dangling page gives nothing to itself
contribution_DanglingSkipsSelf(c, rk, d, current_page, page) ==
    IF current_page \in c[page]
    THEN FxMul(d, FxDivInt(rk[page], Cardinality(c[page])))
    ELSE IF c[page] = {} /\ page # current_page
         THEN FxMul(d, FxDivInt(rk[page], Cardinality(DOMAIN c)))
         ELSE 0

\* what `page` adds to new_rank of current_page (the if / elif of the
\* inner loop)
contribution(c, rk, d, current_page, page) ==
    IF current_page \in c[page]
    THEN FxMul(d, FxDivInt(rk[page], Cardinality(c[page])))
    ELSE IF c[page] = {}
         THEN FxMul(d, FxDivInt(rk[page], Cardinality(DOMAIN c)))
         ELSE 0

new_rank(c, rk, d, current_page) ==
    LET base == FxDivInt(FxOfRat(RSub(One, d)), Cardinality(DOMAIN c))
        add  == [page \in DOMAIN c |-> contribution(c, rk, d, current_page, page)]
    IN  base + FxSum(add, DOMAIN c)

new_ranks_of(c, rk, d) ==
    [current_page \in DOMAIN c |-> new_rank(c, rk, d, current_page)]

converged(c, rk, new) ==
    \A page \in DOMAIN c : Abs(new[page] - rk[page]) <= Threshold

\* the whole loop, as a function: the mapping returned within `fuel` passes
RECURSIVE iterate_loop(_, _, _, _)
iterate_loop(c, rk, d, fuel) ==
    LET new == new_ranks_of(c, rk, d)
    IN  IF converged(c, rk, new) \/ fuel = 0 THEN new
        ELSE iterate_loop(c, new, d, fuel - 1)

iterate_pagerank(c, d) == iterate_loop(c, initial_ranks(c), d, MaxIter - 1)

-----------------------------------------------------------------------------
(* The state machine *)

\* either main's run on a directory (crawl, then sample_pagerank, then
\* iterate_pagerank on the crawled corpus), or one direct call of an
\* estimator on a corpus
Init ==
    /\ \/ /\ directory \in Directories
          /\ corpus = <<>>
          /\ pc = "crawl"
       \/ /\ directory = NoDirectory
          /\ corpus \in Corpora
          /\ pc = "ready"
    /\ damping_factor = DAMPING
    /\ n = 0
    /\ ranks = NoRanks
    /\ sample_ranks = NoRanks
    /\ sample = NoPage
    /\ i = 0
    /\ model = NoModel
    /\ k = 0

Crawl ==
    /\ pc = "crawl"
    /\ corpus' = crawl(directory)
    /\ pc' = "ready"
    /\ UNCHANGED <<directory, damping_factor, n, ranks, sample_ranks, sample, i, model, k>>

\* the dampings a call may be made with: main passes DAMPING to a crawled
\* corpus; a direct call may pass any of Dampings.  The sample count of a
\* call is drawn from 1..MaxN, for main's call too (in place of SAMPLES);
\* what is stated of the accumulators is stated in terms of n
CallDampings == IF directory = NoDirectory THEN Dampings ELSE {DAMPING}

\* sample_pagerank, lines 85-86, on an empty corpus: random.choice raises
SampleError ==
    /\ pc = "ready"
    /\ DOMAIN corpus = {}
    /\ \E d \in CallDampings, m \in 1..MaxN :
          /\ damping_factor' = d
          /\ n' = m
    /\ sample_ranks' = [page \in DOMAIN corpus |-> FZero]
    /\ pc' = "sample_error"
    /\ UNCHANGED <<directory, corpus, ranks, sample, i, model, k>>

\* sample_pagerank, lines 85-86
SampleStart ==
    /\ pc = "ready"
    /\ DOMAIN corpus # {}
    /\ \E d \in CallDampings, m \in 1..MaxN :
          /\ damping_factor' = d
          /\ n' = m
    /\ sample_ranks' = [page \in DOMAIN corpus |-> FZero]
    /\ sample' \in DOMAIN corpus
    /\ i' = 0
    /\ pc' = "sample_loop"
    /\ UNCHANGED <<directory, corpus, ranks, model, k>>

\* SampleAccumulate with `ranks[sample] = 1.0 / n` for `+=`
SampleAccumulate_Assign ==
    /\ pc = "sample_loop"
    /\ i < n
    /\ sample_ranks' = [sample_ranks EXCEPT ![sample] = FDiv(1, n)]
    /\ model' = transition_model(corpus, sample, damping_factor)
    /\ pc' = "sample_draw"
    /\ UNCHANGED <<directory, corpus, damping_factor, n, ranks, sample, i, k>>

\* lines 88-91: one more pass of the loop
SampleAccumulate ==
    /\ pc = "sample_loop"
    /\ i < n
    /\ sample_ranks' = [sample_ranks EXCEPT ![sample] = FAdd(@, FDiv(1, n))]
    /\ model' = transition_model(corpus, sample, damping_factor)
    /\ pc' = "sample_draw"
    /\ UNCHANGED <<directory, corpus, damping_factor, n, ranks, sample, i, k>>

\* line 93: random.choices draws a page of positive weight
SampleDraw ==
    /\ pc = "sample_draw"
    /\ sample' \in {page \in DOMAIN model : model[page][1] > 0}
    /\ i' = i + 1
    /\ pc' = "sample_loop"
    /\ UNCHANGED <<directory, corpus, damping_factor, n, ranks, sample_ranks, model, k>>

\* line 95
SampleReturn ==
    /\ pc = "sample_loop"
    /\ i = n
    /\ pc' = "sample_done"
    /\ UNCHANGED <<directory, corpus, damping_factor, n, ranks, sample_ranks, sample, i, model, k>>

\* line 107, iterate_pagerank called directly on a corpus
IterateStart ==
    /\ directory = NoDirectory
    /\ pc = "ready"
    /\ \E d \in CallDampings : damping_factor' = d
    /\ ranks' = initial_ranks(corpus)
    /\ k' = 0
    /\ pc' = "iterate_loop"
    /\ UNCHANGED <<directory, corpus, n, sample_ranks, sample, i, model>>

\* main, line 18: iterate_pagerank(corpus, DAMPING) once sample_pagerank has
\* returned (an IndexError of sample_pagerank ends main before it)
MainIterateStart ==
    /\ directory # NoDirectory
    /\ pc = "sample_done"
    /\ damping_factor' = DAMPING
    /\ ranks' = initial_ranks(corpus)
    /\ k' = 0
    /\ pc' = "iterate_loop"
    /\ UNCHANGED <<directory, corpus, n, sample_ranks, sample, i, model>>

\* IterateContinue without line 128, `ranks = new_ranks`
IterateContinue_NoUpdate ==
    /\ pc = "iterate_loop"
    /\ k < MaxIter
    /\ LET new == new_ranks_of(corpus, ranks, damping_factor)
       IN  ~converged(corpus, ranks, new)
    /\ k' = k + 1
    /\ UNCHANGED <<directory, corpus, pc, damping_factor, n, ranks, sample_ranks, sample, i, model>>

\* lines 110-128, a pass that does not converge: ranks = new_ranks
IterateContinue ==
    /\ pc = "iterate_loop"
    /\ k < MaxIter
    /\ LET new == new_ranks_of(corpus, ranks, damping_factor)
       IN  /\ ~converged(corpus, ranks, new)
           /\ ranks' = new
    /\ k' = k + 1
    /\ UNCHANGED <<directory, corpus, pc, damping_factor, n, sample_ranks, sample, i, model>>

\* lines 110-127, a pass that converges: return new_ranks
IterateReturn ==
    /\ pc = "iterate_loop"
    /\ k < MaxIter
    /\ LET new == new_ranks_of(corpus, ranks, damping_factor)
       IN  /\ converged(corpus, ranks, new)
           /\ ranks' = new
    /\ k' = k + 1
    /\ pc' = "iterate_done"
    /\ UNCHANGED <<directory, corpus, damping_factor, n, sample_ranks, sample, i, model>>

Next ==
    \/ Crawl
    \/ SampleError
    \/ SampleStart
    \/ SampleAccumulate
    \/ SampleDraw
    \/ SampleReturn
    \/ IterateStart
    \/ MainIterateStart
    \/ IterateContinue
    \/ IterateReturn

Spec == Init /\ [][Next]_vars

\* iterate_pagerank alone, called directly on a corpus
IterateInit ==
    /\ Init
    /\ directory = NoDirectory

IterateNext ==
    \/ IterateStart
    \/ IterateContinue
    \/ IterateReturn

\* a pass of the `while True` loop that can be made is made
FairSpec ==
    /\ IterateInit
    /\ [][IterateNext]_vars
    /\ WF_vars(IterateContinue \/ IterateReturn)

-----------------------------------------------------------------------------
(* Properties *)

NumPages == Cardinality(DOMAIN corpus)

Sampling == pc \in {"sample_loop", "sample_draw", "sample_done"}
Iterating == pc \in {"iterate_loop", "iterate_done"}
Crawled == directory # NoDirectory /\ pc # "crawl"

\* the data-model invariant of a corpus
NoSelfLinks(c) == \A p \in DOMAIN c : p \notin c[p]

\* C1: the mapping transition_model returns has exactly the corpus's keys,
\* no negative value, and its values sum to 1.
C1_TransitionModelIsDistribution ==
    pc = "sample_draw" =>
        /\ DOMAIN model = DOMAIN corpus
        /\ \A p \in DOMAIN model : model[p][1] >= 0 /\ model[p][2] > 0
        /\ RSum(model, DOMAIN model) = One

C1_Witness ==
    /\ pc = "sample_draw"
    /\ NumPages = 3
    /\ Cardinality(corpus[sample]) = 1
    /\ damping_factor = DAMPING

\* (1-d)/N and (1-d)/N + d/L, each as one fraction
RefBase(d, N) == Rat(d[2] - d[1], d[2] * N)
RefLinked(d, N, L) == Rat((d[2] - d[1]) * L + d[1] * N, d[2] * N * L)

\* C2: transition_model(corpus, page, d) is the reference distribution:
\* 1/N everywhere when page has no links; otherwise (1-d)/N + d/L on the
\* link targets of page and (1-d)/N on every other page, page included.
C2_TransitionModelReference ==
    pc = "sample_draw" =>
        LET N == NumPages
            L == Cardinality(corpus[sample])
        IN  /\ L = 0 => \A q \in DOMAIN corpus : model[q] = Rat(1, N)
            /\ L > 0 =>
                 /\ \A q \in corpus[sample] :
                        model[q] = RefLinked(damping_factor, N, L)
                 /\ \A q \in DOMAIN corpus \ corpus[sample] :
                        model[q] = RefBase(damping_factor, N)
                 /\ NoSelfLinks(corpus) =>
                        model[sample] = RefBase(damping_factor, N)

C2_Witness ==
    /\ pc = "sample_draw"
    /\ NumPages = 3
    /\ Cardinality(corpus[sample]) = 2
    /\ NoSelfLinks(corpus)

\* what rounding may add to or take from the mass of a rank mapping
MassTol == SCALE \div 10000

\* C3: iterate_pagerank conserves rank mass: the initial mapping and the
\* mapping of every pass have one entry per page and sum to 1 (up to
\* rounding), so the returned mapping sums to 1.0 within 0.01.
C3_MassConserved ==
    (Iterating /\ NumPages > 0) =>
        /\ DOMAIN ranks = DOMAIN corpus
        /\ Abs(FxSum(ranks, DOMAIN ranks) - SCALE) <= MassTol
        /\ pc = "iterate_done" =>
              Abs(FxSum(ranks, DOMAIN ranks) - SCALE) <= SCALE \div 100

C3_Witness ==
    /\ pc = "iterate_done"
    /\ k > 3
    /\ NumPages = 3
    /\ \E p \in DOMAIN corpus : corpus[p] = {}
    /\ \E p \in DOMAIN corpus : corpus[p] # {}

\* the doubles of the mapping r added up from left to right in the order
\* of the sequence ord
RECURSIVE FSumInOrder(_, _)
FSumInOrder(r, ord) ==
    IF ord = <<>> THEN FZero
    ELSE FAdd(FSumInOrder(r, SubSeq(ord, 1, Len(ord) - 1)), r[ord[Len(ord)]])

Orders(S) ==
    {ord \in [1..Cardinality(S) -> S] : \A a, b \in 1..Cardinality(S) :
                                            a # b => ord[a] # ord[b]}

\* the values of r sum to the double j / m: as real numbers, or as Python
\* adds them up in some order of the pages
SumsExactlyTo(r, j, m) ==
    \/ BMulSmall(BSum(r, DOMAIN r), m) = BMulSmall(FOne, j)
    \/ j > 0 /\ \E ord \in Orders(DOMAIN r) : FSumInOrder(r, ord) = FDiv(j, m)
    \/ j = 0 /\ \A p \in DOMAIN r : r[p] = FZero

\* the rounding of one double operation on a value below 2: half a unit in
\* the last place, 2^(-53), in units of 2^(-56)
HalfUlp == <<0, 0, 2 ^ 3>>

\* the values of r sum, as real numbers, to j / m within (j + 1) roundings:
\* one for each of the j additions and one for 1.0 / m
SumsWithinRoundingTo(r, j, m) ==
    BLeq(BAbsDiff(BMulSmall(BSum(r, DOMAIN r), m), BMulSmall(FOne, j)),
         BMulSmall(HalfUlp, m * (j + 1)))

\* the double new is old + 1/m within two roundings: that of 1.0 / m and
\* that of the addition
AddsOneInMOf(old, new, m) ==
    /\ BLeq(old, new)
    /\ BLeq(BAbsDiff(BMulSmall(BSub(new, old), m), FOne),
            BMulSmall(HalfUlp, 2 * m))

\* C4 as stated: sample_pagerank makes exactly n passes, each adding
\* exactly 1/n to the accumulator of the current sample, a key of the
\* corpus; after j passes the accumulators sum to j/n; the returned mapping
\* has one entry per page and sums to exactly 1.
C4_SamplingExact ==
    Sampling =>
        /\ DOMAIN sample_ranks = DOMAIN corpus
        /\ sample \in DOMAIN corpus
        /\ i <= n
        /\ pc = "sample_loop" => SumsExactlyTo(sample_ranks, i, n)
        /\ pc = "sample_draw" => i < n /\ SumsExactlyTo(sample_ranks, i + 1, n)
        /\ pc = "sample_done" => i = n /\ SumsExactlyTo(sample_ranks, n, n)

\* C4 amended: sample_pagerank makes exactly n passes, each adding the
\* double 1.0/n to the accumulator of the current sample, a key of the
\* corpus, with one rounding; after j passes the accumulators sum to j/n
\* within (j + 1) * 2^(-53); the returned mapping has one entry per page and
\* sums to 1 within (n + 1) * 2^(-53), a bound that grows with n.
C4_SamplingCounts ==
    /\ [](Sampling =>
            /\ DOMAIN sample_ranks = DOMAIN corpus
            /\ sample \in DOMAIN corpus
            /\ i <= n
            /\ pc = "sample_loop" => SumsWithinRoundingTo(sample_ranks, i, n)
            /\ pc = "sample_draw" =>
                  i < n /\ SumsWithinRoundingTo(sample_ranks, i + 1, n)
            /\ pc = "sample_done" =>
                  i = n /\ SumsWithinRoundingTo(sample_ranks, n, n))
    /\ [][(pc = "sample_loop" /\ pc' = "sample_draw") =>
            /\ sample_ranks'[sample] = FAdd(sample_ranks[sample], FDiv(1, n))
            /\ AddsOneInMOf(sample_ranks[sample], sample_ranks'[sample], n)
            /\ \A p \in DOMAIN corpus \ {sample} : sample_ranks'[p] = sample_ranks[p]]_vars

\* a returned mapping that does not sum to 1.0
C4_Witness ==
    /\ pc = "sample_done"
    /\ n = 6
    /\ NumPages >= 2
    /\ ~SumsExactlyTo(sample_ranks, n, n)

\* C5: an empty corpus is rejected by both estimators: neither returns a
\* rank mapping for it as a normal result.
C5_EmptyCorpusRejected ==
    (pc # "crawl" /\ DOMAIN corpus = {}) => pc \notin {"sample_done", "iterate_done"}

\* the corpus {A: {B}, B: {}}
DanglingPair == [p \in {PageA, PageB} |-> IF p = PageA THEN {PageB} ELSE {}]

\* the float 0.dddd, for the four digits dddd
Decimal4(x) == x * (SCALE \div 10000)

C6_Case ==
    /\ pc = "iterate_done"
    /\ corpus = DanglingPair
    /\ damping_factor = DAMPING

\* C6 as stated: for {A: {B}, B: {}} and d = 0.85 iterate_pagerank returns
\* PR(B) = 0.6293 and PR(A) = 0.3207, each within 0.001.
C6_StatedValues ==
    C6_Case =>
        /\ Abs(ranks[PageB] - Decimal4(6293)) <= Threshold
        /\ Abs(ranks[PageA] - Decimal4(3207)) <= Threshold

\* C6 amended: for {A: {B}, B: {}} and d = 0.85 iterate_pagerank returns
\* PR(B) = 0.6490 and PR(A) = 0.3510, each within 0.001.
C6_ReturnedValues ==
    C6_Case =>
        /\ Abs(ranks[PageB] - Decimal4(6490)) <= Threshold
        /\ Abs(ranks[PageA] - Decimal4(3510)) <= Threshold

C6_Witness == C6_Case /\ k > 1

\* the corpus c with p removed from p's own link set
without_self_link(c, p) == [c EXCEPT ![p] = @ \ {p}]

\* the directory dir in which no document links to itself
without_self_hrefs(dir) == [x \in DOMAIN dir |-> dir[x] \ {x}]

\* C7 as stated: iterate_pagerank returns, for a corpus in which p's link
\* set contains p, the ranks it returns for the corpus with p removed
\* from p's own link set.
C7_SelfLinksInert ==
    pc = "iterate_done" =>
        \A p \in DOMAIN corpus :
            ranks = iterate_pagerank(without_self_link(corpus, p), damping_factor)

\* C7 amended: self-links are inert through the loader: crawl builds the
\* same corpus, and iterate_pagerank returns for it the same ranks, whether
\* or not a document links to itself.
C7_LoaderDropsSelfLinks ==
    Crawled =>
        /\ corpus = crawl(without_self_hrefs(directory))
        /\ NoSelfLinks(corpus)
        /\ pc = "iterate_done" =>
              ranks = iterate_pagerank(crawl(without_self_hrefs(directory)),
                                       damping_factor)

C7_Witness ==
    /\ Crawled
    /\ pc = "iterate_done"
    /\ PageA \in DOMAIN directory
    /\ PageA \in directory[PageA]
    /\ PageB \in directory[PageA]
    /\ NumPages = 2
    /\ k > 1

\* a name whose last five characters are ".html"
IsHtmlName(x) ==
    /\ Len(x) >= 5
    /\ x[Len(x) - 4] = "."
    /\ x[Len(x) - 3] = "h"
    /\ x[Len(x) - 2] = "t"
    /\ x[Len(x) - 1] = "m"
    /\ x[Len(x)] = "l"

\* C8: the corpus crawl returns has exactly the .html file names as keys,
\* every link is a key, no page links to itself, and a link to another
\* corpus page that the document contains is kept.
C8_CrawlCorpusInvariant ==
    Crawled =>
        /\ DOMAIN corpus = {x \in DOMAIN directory : IsHtmlName(x)}
        /\ \A p \in DOMAIN corpus :
              /\ corpus[p] \subseteq DOMAIN corpus
              /\ p \notin corpus[p]
              /\ \A q \in DOMAIN corpus :
                    (q # p /\ q \in directory[p]) => q \in corpus[p]

C8_Witness ==
    /\ Crawled
    /\ DOMAIN directory = FileNames
    /\ directory[PageA] = Hrefs
    /\ corpus[PageA] = {PageB}
    /\ corpus[PageB] = {}

\* R_{k+1}(p) of the fixed-point equation, from the snapshot rk
RefUpdate(c, rk, d) ==
    LET N == Cardinality(DOMAIN c)
        linking(p) == {q \in DOMAIN c : p \in c[q]}
        dangling == {q \in DOMAIN c : Cardinality(c[q]) = 0}
        fromLink == [q \in DOMAIN c |->
                        IF c[q] = {} THEN 0
                        ELSE FxMul(d, FxDivInt(rk[q], Cardinality(c[q])))]
        fromDangling == [q \in DOMAIN c |-> FxMul(d, FxDivInt(rk[q], N))]
    IN  [p \in DOMAIN c |->
            FxDivInt(FxOfRat(Rat(d[2] - d[1], d[2])), N)
              + FxSum(fromLink, linking(p))
              + FxSum(fromDangling, dangling \ linking(p))]

\* C9: iterate_pagerank starts from R0(p) = 1/N; every pass computes all
\* new ranks from the previous snapshot by the fixed-point equation; it
\* returns the new mapping at the first pass in which no page changed by
\* more than 0.001, and goes on otherwise.
C9_SynchronousIteration ==
    /\ []((pc = "iterate_loop" /\ k = 0) =>
            \A p \in DOMAIN corpus : ranks[p] = FxDivInt(SCALE, NumPages))
    /\ [][(pc = "iterate_loop" /\ k' = k + 1) =>
            /\ ranks' = RefUpdate(corpus, ranks, damping_factor)
            /\ pc' \in {"iterate_loop", "iterate_done"}
            /\ pc' = "iterate_done" <=>
                  \A p \in DOMAIN corpus : Abs(ranks'[p] - ranks[p]) <= Threshold]_vars

C9_Witness ==
    /\ pc = "iterate_done"
    /\ k > 5
    /\ NumPages = 3
    /\ \E p \in DOMAIN corpus : corpus[p] = {}
    /\ \E p \in DOMAIN corpus : Cardinality(corpus[p]) = 2
    /\ damping_factor = DAMPING

\* C10: for every non-empty corpus and damping factor the update loop of
\* iterate_pagerank eventually converges and returns.
C10_IterationTerminates ==
    (pc = "iterate_loop" /\ NumPages > 0) ~> (pc = "iterate_done")

C10_Witness ==
    /\ pc = "iterate_done"
    /\ k > 30
    /\ NumPages = 3

=============================================================================
